---- MODULE Spec2Model ----
(***************************************************************************)
(* Model of the two publishing scripts of stanfordnlp/huggingface-models:  *)
(* hugging_corenlp.py and hugging_stanza.py.  Each script walks a catalog  *)
(* of models and, per model, creates the remote repository, makes sure the *)
(* large-file tracking rules are present, copies the artifact into a local *)
(* staging directory, uploads it with a model card and re-creates the      *)
(* version tag.                                                            *)
(*                                                                         *)
(* Python strings are modelled as sequences of tokens, so that string      *)
(* concatenation, os.path.join and ", ".join are computed, not assumed.    *)
(***************************************************************************)
EXTENDS Naturals, Sequences, FiniteSets

VARIABLES
    script,     \* which script runs: "corenlp" or "stanza"
    input_dir,  \* args.input_dir, a string ("" is <<>>)
    files,      \* the paths that exist on the local filesystem (os.path.exists)
    template,   \* the .gitattributes lines the hub gives a newly created repository
    models,     \* args.models: FALSE when --no_models was given
    hub,        \* remote repositories: repo_id -> [exists, commits, tags]
    local,      \* local staging directories / clones: repo_id -> [present, tree, base]
    run,        \* number of the current invocation of the script
    pc,         \* the statement the script is about to execute
    i,          \* index in the catalog of the model being processed
    killed,     \* the process was interrupted at pc
    now,        \* the clock read by get_model_card (strictly increasing)
    answer,     \* result of the artifact resolution of the current model
    outcome,    \* per model of this run: PENDING, DONE, FAILED or NOT_CLEAN
    calls,      \* the operations this run has issued, in order: [op, model]
    uploaded,   \* per model: the head revision this run's upload produced (0: none)
    deleted,    \* per model: the revision of the tag this run deleted (0: none)
    prev        \* how the previous run ended: [how, model, at, clean]

\* ------------------------------------------------------------------ bounds

\* number of catalog entries pushed in one run
NumModels == 2

\* number of invocations of the script against the same hub and disk
MaxRuns == 2

\* ----------------------------------------------------------------- strings

Last(s) == s[Len(s)]

\* os.path.join(a, b) for a relative b
PathJoin(a, b) ==
    IF a = <<>> THEN b
    ELSE IF Last(a) = "/" THEN a \o b
    ELSE a \o <<"/">> \o b

\* sep.join(parts)
RECURSIVE StrJoin(_, _)
StrJoin(sep, parts) ==
    IF parts = <<>> THEN <<>>
    ELSE IF Len(parts) = 1 THEN parts[1]
    ELSE parts[1] \o sep \o StrJoin(sep, Tail(parts))

\* ----------------------------------------------------------------- catalog

None == <<>>

Model(model_name, lang, local_name, remote_name, repo_name) ==
    [model_name |-> model_name, lang |-> lang, local_name |-> local_name,
     remote_name |-> remote_name, repo_name |-> repo_name]

MODELS == <<
    Model("CoreNLP", "en", <<"stanford-corenlp-latest.zip">>,
          <<"stanford-corenlp-latest.zip">>, <<"CoreNLP">>),
    Model("arabic", "ar", <<"stanford-arabic-corenlp-models-current.jar">>, None, None),
    Model("chinese", "zh", <<"stanford-chinese-corenlp-models-current.jar">>, None, None),
    Model("english-default", "en", <<"stanford-corenlp-models-current.jar">>, None, None) >>

\* args.version
corenlp_version == "4.5.4"

\* ---------------------------------------------------------------- resolver

\* src_candidates of hugging_corenlp.push_to_hub
src_candidates(model, version) ==
    << <<"stanford-corenlp-models-", model.model_name, ".jar">>,
       model.local_name,
       <<"stanford-corenlp-", version, "-models-", model.model_name, ".jar">> >>

\* a probe that ignores input_dir and looks in the working directory
ProbePathCwd(dir, cand) == cand

\* the path the loop hands to os.path.exists for one candidate
ProbePath(dir, cand) == IF dir # <<>> THEN PathJoin(dir, cand) ELSE cand

\* the for loop without its break: the last existing candidate wins
RECURSIVE LastExisting(_, _, _, _)
LastExisting(cands, dir, fs, probed) ==
    IF cands = <<>> THEN [found |-> FALSE, src |-> <<>>, probed |-> probed]
    ELSE LET p == ProbePath(dir, Head(cands))
             rest == LastExisting(Tail(cands), dir, fs, Append(probed, p))
         IN  IF p \in fs /\ ~rest.found
             THEN [found |-> TRUE, src |-> p, probed |-> rest.probed]
             ELSE rest

\* the for loop over src_candidates: [found, src, probed]
RECURSIVE FirstExisting(_, _, _, _)
FirstExisting(cands, dir, fs, probed) ==
    IF cands = <<>> THEN [found |-> FALSE, src |-> <<>>, probed |-> probed]
    ELSE LET p == ProbePath(dir, Head(cands))
         IN  IF p \in fs
             THEN [found |-> TRUE, src |-> p, probed |-> Append(probed, p)]
             ELSE FirstExisting(Tail(cands), dir, fs, Append(probed, p))

\* a message that lists the candidate names, not the paths probed
locations_searched_names(cands, dir) == StrJoin(<<", ">>, cands)

\* locations_searched in the else branch of the for loop
locations_searched(cands, dir) ==
    IF dir # <<>>
    THEN StrJoin(<<", ">>, [k \in 1..Len(cands) |-> PathJoin(dir, cands[k])])
    ELSE StrJoin(<<", ">>, cands)

\* resolution of one CoreNLP model: the path found, or the FileNotFoundError
ResolveCoreNLP(model, version, dir, fs) ==
    LET cands == src_candidates(model, version)
        r == FirstExisting(cands, dir, fs, <<>>)
    IN  IF r.found
        THEN [found |-> TRUE, src |-> r.src, probed |-> r.probed, message |-> <<>>]
        ELSE [found |-> FALSE, src |-> <<>>, probed |-> r.probed,
              message |-> <<"Cannot find ", model.model_name, " model.  Looked in ">>
                          \o locations_searched(cands, dir)]

\* --------------------------------------------------------- stanza catalog

\* args.version of hugging_stanza.py
stanza_version == "1.5.1"

\* args.lang
LANGS == <<"ar", "zh", "en", "fr">>

\* input_dir after the "input_dir + version" probe of hugging_stanza.push_to_hub
stanza_input_dir(dir, version, fs) ==
    IF (dir \o <<version>>) \in fs THEN dir \o <<version>> ELSE dir

\* resolution of one Stanza language: the directory found, or the FileNotFoundError
ResolveStanza(lang, dir, fs) ==
    LET p == PathJoin(dir, <<lang>>)
    IN  IF p \in fs
        THEN [found |-> TRUE, src |-> p, probed |-> <<p>>, message |-> <<>>]
        ELSE [found |-> FALSE, src |-> <<>>, probed |-> <<p>>,
              message |-> IF dir = <<>>
                          THEN <<"Could not find models under ">> \o p
                               \o <<".  Perhaps you forgot to set --input_dir?">>
                          ELSE <<"Could not find models under ">> \o p]

\* ------------------------------------------------------ per-model constants

Version(s) == IF s = "corenlp" THEN corenlp_version ELSE stanza_version

\* the positions of the catalog (MODELS, or args.lang)
Catalog == 1..NumModels

\* a work list that ignores --no_models
stuff_to_push_all == Catalog

\* the catalog positions one run walks: all of them, or with --no_models only
\* the entries named CoreNLP
stuff_to_push ==
    IF models THEN Catalog
    ELSE {k \in Catalog : MODELS[k].model_name = "CoreNLP"}

\* the first position of the work list
FirstModel == CHOOSE k \in stuff_to_push : \A j \in stuff_to_push : k <= j

\* a repository name that leaves the model's name out
repo_name_prefix(s, k) ==
    IF s = "corenlp"
    THEN IF MODELS[k].repo_name # None THEN MODELS[k].repo_name
         ELSE <<"corenlp-">>
    ELSE <<"stanza-">>

repo_name(s, k) ==
    IF s = "corenlp"
    THEN IF MODELS[k].repo_name # None THEN MODELS[k].repo_name
         ELSE <<"corenlp-", MODELS[k].model_name>>
    ELSE <<"stanza-", LANGS[k]>>

repo_id(s, k) == <<"stanfordnlp/">> \o repo_name(s, k)

RepoIds(s) == {repo_id(s, k) : k \in Catalog}

\* args.output_dir
output_dir == <<"/u/nlp/software/hub">>

\* the staging directory (CoreNLP) or the clone (Stanza) of a model
repo_local_path(s, k) ==
    IF s = "corenlp" THEN PathJoin(output_dir, repo_name(s, k))
    ELSE PathJoin(<<"hub">>, repo_name(s, k))

\* the name of the artifact inside the staging directory
dst(s, k) ==
    IF s = "corenlp"
    THEN IF MODELS[k].remote_name # None THEN MODELS[k].remote_name
         ELSE <<"stanford-corenlp-models-", MODELS[k].model_name, ".jar">>
    ELSE <<"models">>

new_tag_name(s) == <<"v", Version(s)>>

\* -------------------------------------------------------------- the hub

\* a revision's content: the tracking rules, the artifact and the model card
NoTree == [gitattributes |-> <<>>, model |-> None, readme |-> 0]

Absent == [exists |-> FALSE, commits |-> <<>>, tags |-> {}]

HeadRev(h) == Len(h.commits)

HeadTree(h) == h.commits[Len(h.commits)].tree

\* api.create_repo(repo_id, exist_ok=True)
HubCreateRepo(h, tmpl) ==
    IF h.exists THEN h
    ELSE [exists |-> TRUE,
          commits |-> << [message |-> <<"initial commit">>,
                          tree |-> [NoTree EXCEPT !.gitattributes = tmpl]] >>,
          tags |-> {}]

\* one commit on main
HubCommit(h, tree, message) ==
    [h EXCEPT !.commits = Append(@, [message |-> message, tree |-> tree])]

\* a push of a folder or working tree: git records nothing when nothing differs
HubPush(h, tree, message) ==
    IF tree = HeadTree(h) THEN h ELSE HubCommit(h, tree, message)

TagExists(h, name) == \E t \in h.tags : t[1] = name

HubDeleteTag(h, name) == [h EXCEPT !.tags = {t \in @ : t[1] # name}]

\* a tag created against the parent of the head
TagTargetParent(h) == HeadRev(h) - 1

\* the revision a tag created without an explicit revision points at
TagTarget(h) == HeadRev(h)

HubCreateTag(h, name) == [h EXCEPT !.tags = @ \cup {<<name, TagTarget(h)>>}]

Rules(lines) == {lines[k] : k \in 1..Len(lines)}

\* ------------------------------------------------------- the local disk

NoLocal == [present |-> FALSE, tree |-> NoTree, base |-> 0]

\* repo.is_repo_clean(): the working tree equals the checked-out revision
IsRepoClean(l, h) == l.present => l.tree = h.commits[l.base].tree

\* git lfs track: adds the pattern unless it is tracked already
lfs_track(lines, ext) == IF ext \in Rules(lines) THEN lines ELSE Append(lines, ext)

\* ------------------------------------------------------------ the script

\* a loop body that resolves and copies the artifact before it touches the hub
CoreNLPStepsResolveFirst == <<"copy", "create_repo", "hf_hub_download", "lfs_jar",
                              "lfs_zip", "upload_folder", "delete_tag", "create_tag">>

CoreNLPSteps == <<"create_repo", "hf_hub_download", "lfs_jar", "lfs_zip",
                  "copy", "upload_folder", "delete_tag", "create_tag">>

StanzaSteps == <<"create_repo", "clone", "lfs_track", "push_tracked",
                 "copytree", "push_model", "delete_tag", "add_tag">>

Steps(s) == IF s = "corenlp" THEN CoreNLPSteps ELSE StanzaSteps

\* the statement after p in the loop body
After(s, p) ==
    LET k == CHOOSE k \in 1..Len(Steps(s)) : Steps(s)[k] = p
    IN  Steps(s)[k + 1]

Terminal == {"exit", "raised"}

Running(s, p) == /\ script = s
                 /\ ~killed
                 /\ pc = p

Call(op, k) == [op |-> op, model |-> k]

Log(op) == calls' = Append(calls, Call(op, i))

Here == repo_id(script, i)

config == <<script, input_dir, files, template, models>>

\* the end of one iteration of the for loop
NextModel ==
    /\ outcome' = [outcome EXCEPT ![i] = "DONE"]
    /\ IF \E j \in stuff_to_push : j > i
       THEN /\ i' = CHOOSE j \in stuff_to_push :
                      j > i /\ \A m \in stuff_to_push : m > i => j <= m
            /\ pc' = Steps(script)[1]
       ELSE /\ i' = i
            /\ pc' = "exit"

\* a loop that records the failure and goes on with the next model
RaiseAndContinue ==
    /\ outcome' = [outcome EXCEPT ![i] = "FAILED"]
    /\ IF \E j \in stuff_to_push : j > i
       THEN /\ i' = CHOOSE j \in stuff_to_push :
                      j > i /\ \A m \in stuff_to_push : m > i => j <= m
            /\ pc' = Steps(script)[1]
       ELSE /\ i' = i
            /\ pc' = "exit"

\* raise: the exception leaves push_to_hub and ends the process
Raise ==
    /\ outcome' = [outcome EXCEPT ![i] = "FAILED"]
    /\ pc' = "raised"
    /\ i' = i

\* ------------------------------------------------ hugging_corenlp.py steps

\* create_repo without exist_ok: an existing repository is an error
CreateRepoStrict ==
    /\ Running("corenlp", "create_repo")
    /\ Log("create_repo")
    /\ IF hub[Here].exists
       THEN /\ Raise
            /\ hub' = hub
       ELSE /\ hub' = [hub EXCEPT ![Here] = HubCreateRepo(@, template)]
            /\ pc' = After(script, pc)
            /\ UNCHANGED <<i, outcome>>
    /\ UNCHANGED <<config, local, run, killed, now, answer, uploaded, deleted, prev>>

CreateRepo ==
    /\ Running("corenlp", "create_repo")
    /\ hub' = [hub EXCEPT ![Here] = HubCreateRepo(@, template)]
    /\ Log("create_repo")
    /\ pc' = After(script, pc)
    /\ UNCHANGED <<config, local, run, i, killed, now, answer, outcome,
                   uploaded, deleted, prev>>

HfHubDownload ==
    /\ Running("corenlp", "hf_hub_download")
    /\ local' = [local EXCEPT ![Here] =
                   [present |-> TRUE,
                    tree |-> [@.tree EXCEPT !.gitattributes =
                                                HeadTree(hub[Here]).gitattributes],
                    base |-> 0]]
    /\ Log("hf_hub_download")
    /\ pc' = After(script, pc)
    /\ UNCHANGED <<config, hub, run, i, killed, now, answer, outcome,
                   uploaded, deleted, prev>>

\* the api.upload_file call of maybe_add_lfs, by extension
upload_file_op(extension) ==
    IF extension = "*.jar" THEN "upload_file *.jar" ELSE "upload_file *.zip"

\* the lines maybe_add_lfs starts from: the local copy of .gitattributes
lfs_lines(l) == l.tree.gitattributes

maybe_add_lfs(extension) ==
    LET lines == lfs_lines(local[Here])
    IN  IF \A k \in 1..Len(lines) : lines[k] # extension
        THEN /\ hub' = [hub EXCEPT ![Here] =
                          HubCommit(@, [HeadTree(@) EXCEPT !.gitattributes =
                                                               Append(lines, extension)],
                                    <<"Upload .gitattributes with huggingface_hub">>)]
             /\ Log(upload_file_op(extension))
        ELSE /\ hub' = hub
             /\ calls' = calls

MaybeAddLfsJar ==
    /\ Running("corenlp", "lfs_jar")
    /\ maybe_add_lfs("*.jar")
    /\ pc' = After(script, pc)
    /\ UNCHANGED <<config, local, run, i, killed, now, answer, outcome,
                   uploaded, deleted, prev>>

MaybeAddLfsZip ==
    /\ Running("corenlp", "lfs_zip")
    /\ maybe_add_lfs("*.zip")
    /\ pc' = After(script, pc)
    /\ UNCHANGED <<config, local, run, i, killed, now, answer, outcome,
                   uploaded, deleted, prev>>

\* resolve the artifact, copy it to dst and write the model card
CopyModel ==
    /\ Running("corenlp", "copy")
    /\ LET r == ResolveCoreNLP(MODELS[i], corenlp_version, input_dir, files)
       IN  /\ answer' = r
           /\ IF r.found
              THEN /\ now' = now + 1
                   /\ local' = [local EXCEPT ![Here].tree =
                                  [@ EXCEPT !.model = [name |-> dst(script, i),
                                                       content |-> r.src],
                                            !.readme = now + 1]]
                   /\ calls' = calls \o << Call("resolve", i),
                                           Call("copy", i) >>
                   /\ pc' = After(script, pc)
                   /\ UNCHANGED <<i, outcome>>
              ELSE /\ Log("resolve")
                   /\ Raise
                   /\ UNCHANGED <<now, local>>
    /\ UNCHANGED <<config, hub, run, killed, uploaded, deleted, prev>>

\* the folder upload_folder sends: every file of the staging directory
upload_tree(l, h) == l.tree

UploadFolder ==
    /\ Running("corenlp", "upload_folder")
    /\ hub' = [hub EXCEPT ![Here] =
                 HubPush(@, upload_tree(local[Here], @),
                         <<"Add model ", corenlp_version>>)]
    /\ uploaded' = [uploaded EXCEPT ![i] = HeadRev(hub'[Here])]
    /\ Log("upload_folder")
    /\ pc' = After(script, pc)
    /\ UNCHANGED <<config, local, run, i, killed, now, answer, outcome,
                   deleted, prev>>

\* the revision a tag name points at (0: no such tag)
TagRev(h, name) ==
    IF TagExists(h, name) THEN (CHOOSE t \in h.tags : t[1] = name)[2] ELSE 0

\* a tagging step that lists the refs and deletes nothing
DeleteTagNever ==
    /\ Running("corenlp", "delete_tag")
    /\ Log("list_repo_refs")
    /\ pc' = After(script, pc)
    /\ UNCHANGED <<config, hub, local, run, i, killed, now, answer, outcome,
                   uploaded, deleted, prev>>

DeleteTag ==
    /\ Running("corenlp", "delete_tag")
    /\ IF TagExists(hub[Here], new_tag_name(script))
       THEN /\ hub' = [hub EXCEPT ![Here] = HubDeleteTag(@, new_tag_name(script))]
            /\ deleted' = [deleted EXCEPT ![i] = TagRev(hub[Here], new_tag_name(script))]
            /\ calls' = calls \o << Call("list_repo_refs", i),
                                    Call("delete_tag", i) >>
       ELSE /\ Log("list_repo_refs")
            /\ UNCHANGED <<hub, deleted>>
    /\ pc' = After(script, pc)
    /\ UNCHANGED <<config, local, run, i, killed, now, answer, outcome,
                   uploaded, prev>>

CreateTag ==
    /\ Running("corenlp", "create_tag")
    /\ Log("create_tag")
    /\ IF TagExists(hub[Here], new_tag_name(script))
       THEN /\ Raise
            /\ hub' = hub
       ELSE /\ hub' = [hub EXCEPT ![Here] = HubCreateTag(@, new_tag_name(script))]
            /\ NextModel
    /\ UNCHANGED <<config, local, run, killed, now, answer, uploaded, deleted, prev>>

\* ------------------------------------------------- hugging_stanza.py steps

\* create_repo without exist_ok: an existing repository is an error
StanzaCreateRepoStrict ==
    /\ Running("stanza", "create_repo")
    /\ Log("create_repo")
    /\ IF hub[Here].exists
       THEN /\ Raise
            /\ hub' = hub
       ELSE /\ hub' = [hub EXCEPT ![Here] = HubCreateRepo(@, template)]
            /\ pc' = After(script, pc)
            /\ UNCHANGED <<i, outcome>>
    /\ UNCHANGED <<config, local, run, killed, now, answer, uploaded, deleted, prev>>

StanzaCreateRepo ==
    /\ Running("stanza", "create_repo")
    /\ hub' = [hub EXCEPT ![Here] = HubCreateRepo(@, template)]
    /\ Log("create_repo")
    /\ pc' = After(script, pc)
    /\ UNCHANGED <<config, local, run, i, killed, now, answer, outcome,
                   uploaded, deleted, prev>>

\* a clean check that skips the dirty model (continue) instead of stopping
StanzaCloneContinue ==
    /\ Running("stanza", "clone")
    /\ LET cloned == IF local[Here].present THEN local[Here]
                     ELSE [present |-> TRUE, tree |-> HeadTree(hub[Here]),
                           base |-> HeadRev(hub[Here])]
       IN  IF ~IsRepoClean(cloned, hub[Here])
           THEN /\ local' = [local EXCEPT ![Here] = cloned]
                /\ Log("clone")
                /\ outcome' = [outcome EXCEPT ![i] = "NOT_CLEAN"]
                /\ IF \E j \in stuff_to_push : j > i
                   THEN /\ i' = i + 1
                        /\ pc' = Steps(script)[1]
                   ELSE /\ i' = i
                        /\ pc' = "exit"
           ELSE /\ local' = [local EXCEPT ![Here] =
                               [present |-> TRUE, tree |-> HeadTree(hub[Here]),
                                base |-> HeadRev(hub[Here])]]
                /\ calls' = calls \o << Call("clone", i),
                                        Call("git_pull", i) >>
                /\ outcome' = outcome
                /\ i' = i
                /\ pc' = After(script, pc)
    /\ UNCHANGED <<config, hub, run, killed, now, answer, uploaded, deleted, prev>>

\* Repository(clone_from), git_checkout("main"), is_repo_clean(), git_pull
StanzaClone ==
    /\ Running("stanza", "clone")
    /\ LET cloned == IF local[Here].present THEN local[Here]
                     ELSE [present |-> TRUE, tree |-> HeadTree(hub[Here]),
                           base |-> HeadRev(hub[Here])]
       IN  IF ~IsRepoClean(cloned, hub[Here])
           THEN /\ local' = [local EXCEPT ![Here] = cloned]
                /\ Log("clone")
                /\ outcome' = [outcome EXCEPT ![i] = "NOT_CLEAN"]
                /\ pc' = "exit"
           ELSE /\ local' = [local EXCEPT ![Here] =
                               [present |-> TRUE, tree |-> HeadTree(hub[Here]),
                                base |-> HeadRev(hub[Here])]]
                /\ calls' = calls \o << Call("clone", i),
                                        Call("git_pull", i) >>
                /\ outcome' = outcome
                /\ pc' = After(script, pc)
    /\ UNCHANGED <<config, hub, run, i, killed, now, answer, uploaded, deleted, prev>>

StanzaLfsTrack ==
    /\ Running("stanza", "lfs_track")
    /\ local' = [local EXCEPT ![Here].tree.gitattributes =
                   lfs_track(lfs_track(@, "*.zip"), "*.pt")]
    /\ Log("lfs_track")
    /\ pc' = After(script, pc)
    /\ UNCHANGED <<config, hub, run, i, killed, now, answer, outcome,
                   uploaded, deleted, prev>>

\* repo.push_to_hub(commit_message, clean_ok=True)
push_to_hub(message) ==
    IF IsRepoClean(local[Here], hub[Here])
    THEN UNCHANGED <<hub, local>>
    ELSE /\ hub' = [hub EXCEPT ![Here] = HubCommit(@, local[Here].tree, message)]
         /\ local' = [local EXCEPT ![Here].base = HeadRev(hub'[Here])]

StanzaPushTracked ==
    /\ Running("stanza", "push_tracked")
    /\ push_to_hub(<<"Update tracked files">>)
    /\ Log("push_tracked")
    /\ pc' = After(script, pc)
    /\ UNCHANGED <<config, run, i, killed, now, answer, outcome,
                   uploaded, deleted, prev>>

\* find the models directory, copytree it and write the model card
StanzaCopytree ==
    /\ Running("stanza", "copytree")
    /\ LET r == ResolveStanza(LANGS[i],
                              stanza_input_dir(input_dir, stanza_version, files), files)
       IN  /\ answer' = r
           /\ IF r.found
              THEN /\ now' = now + 1
                   /\ local' = [local EXCEPT ![Here].tree =
                                  [@ EXCEPT !.model = [name |-> dst(script, i),
                                                       content |-> r.src],
                                            !.readme = now + 1]]
                   /\ calls' = calls \o << Call("resolve", i),
                                           Call("copy", i) >>
                   /\ pc' = After(script, pc)
                   /\ UNCHANGED <<i, outcome>>
              ELSE /\ Log("resolve")
                   /\ Raise
                   /\ UNCHANGED <<now, local>>
    /\ UNCHANGED <<config, hub, run, killed, uploaded, deleted, prev>>

StanzaPushModel ==
    /\ Running("stanza", "push_model")
    /\ push_to_hub(<<"Add model ", stanza_version>>)
    /\ uploaded' = [uploaded EXCEPT ![i] = HeadRev(hub'[Here])]
    /\ Log("push_model")
    /\ pc' = After(script, pc)
    /\ UNCHANGED <<config, run, i, killed, now, answer, outcome, deleted, prev>>

StanzaDeleteTag ==
    /\ Running("stanza", "delete_tag")
    /\ IF TagExists(hub[Here], new_tag_name(script))
       THEN /\ hub' = [hub EXCEPT ![Here] = HubDeleteTag(@, new_tag_name(script))]
            /\ deleted' = [deleted EXCEPT ![i] = TagRev(hub[Here], new_tag_name(script))]
            /\ calls' = calls \o << Call("tag_exists", i),
                                    Call("delete_tag", i) >>
       ELSE /\ Log("tag_exists")
            /\ UNCHANGED <<hub, deleted>>
    /\ pc' = After(script, pc)
    /\ UNCHANGED <<config, local, run, i, killed, now, answer, outcome,
                   uploaded, prev>>

StanzaAddTag ==
    /\ Running("stanza", "add_tag")
    /\ Log("create_tag")
    /\ IF TagExists(hub[Here], new_tag_name(script))
       THEN /\ Raise
            /\ hub' = hub
       ELSE /\ hub' = [hub EXCEPT ![Here] = HubCreateTag(@, new_tag_name(script))]
            /\ NextModel
    /\ UNCHANGED <<config, local, run, killed, now, answer, uploaded, deleted, prev>>

\* ------------------------------------------------------- the environment

\* the operator interrupts the process
Interrupt ==
    /\ ~killed
    /\ pc \notin Terminal
    /\ killed' = TRUE
    /\ UNCHANGED <<config, hub, local, run, pc, i, now, answer, outcome, calls,
                   uploaded, deleted, prev>>

NoAnswer == [found |-> FALSE, src |-> <<>>, probed |-> <<>>, message |-> <<>>]

NoPrev == [how |-> "none", model |-> 0, at |-> "none", clean |-> TRUE]

\* the script is invoked again, with the same arguments
StartRun ==
    /\ killed \/ pc \in Terminal
    /\ run < MaxRuns
    /\ run' = run + 1
    /\ prev' = [how |-> IF killed THEN "interrupted" ELSE pc, model |-> i, at |-> pc,
                clean |-> script = "stanza" => IsRepoClean(local[Here], hub[Here])]
    /\ pc' = Steps(script)[1]
    /\ i' = FirstModel
    /\ killed' = FALSE
    /\ answer' = NoAnswer
    /\ outcome' = [k \in Catalog |-> "PENDING"]
    /\ calls' = <<>>
    /\ uploaded' = [k \in Catalog |-> 0]
    /\ deleted' = [k \in Catalog |-> 0]
    /\ UNCHANGED <<config, hub, local, now>>

\* ---------------------------------------------------------- specification

\* the .gitattributes a new repository may start with
Templates == { <<"*.bin">>, <<"*.bin", "*.pt", "*.zip">>,
               <<"*.bin", "*.jar", "*.pt", "*.zip">> }

MainInputDirs == {<<>>, <<"models">>}

\* the artifacts on disk: those of the models in present, where the script looks
DiskFor(s, dir, present, versioned) ==
    IF s = "corenlp"
    THEN {ProbePath(dir, MODELS[k].local_name) : k \in present}
    ELSE LET base == IF versioned THEN dir \o <<stanza_version>> ELSE dir
         IN  (IF versioned THEN {base} ELSE {})
             \cup {PathJoin(base, <<LANGS[k]>>) : k \in present}

Fresh ==
    /\ run = 1
    /\ pc = "create_repo"
    /\ i = FirstModel
    /\ killed = FALSE
    /\ now = 0
    /\ answer = NoAnswer
    /\ outcome = [k \in Catalog |-> "PENDING"]
    /\ calls = <<>>
    /\ uploaded = [k \in Catalog |-> 0]
    /\ deleted = [k \in Catalog |-> 0]
    /\ prev = NoPrev

Init ==
    /\ script \in {"corenlp", "stanza"}
    /\ input_dir \in MainInputDirs
    /\ template \in Templates
    /\ models \in BOOLEAN
    /\ script = "stanza" => models
    /\ \E present \in SUBSET Catalog, versioned \in BOOLEAN :
         /\ script = "corenlp" => ~versioned
         /\ files = DiskFor(script, input_dir, present, versioned)
    /\ hub = [r \in RepoIds(script) |-> Absent]
    /\ local = [r \in RepoIds(script) |-> NoLocal]
    /\ Fresh

Next ==
    \/ CreateRepo
    \/ HfHubDownload
    \/ MaybeAddLfsJar
    \/ MaybeAddLfsZip
    \/ CopyModel
    \/ UploadFolder
    \/ DeleteTag
    \/ CreateTag
    \/ StanzaCreateRepo
    \/ StanzaClone
    \/ StanzaLfsTrack
    \/ StanzaPushTracked
    \/ StanzaCopytree
    \/ StanzaPushModel
    \/ StanzaDeleteTag
    \/ StanzaAddTag
    \/ Interrupt
    \/ StartRun

vars == <<script, input_dir, files, template, models, hub, local, run, pc, i, killed, now,
          answer, outcome, calls, uploaded, deleted, prev>>

Spec == Init /\ [][Next]_vars

\* ------------------------------------------------- resolver specification

InputDirs == {<<>>, <<"models">>, <<"models", "/">>}

\* every path a candidate of the model can name, under dir or under the cwd
CandidatePaths(model, dir) ==
    LET cands == src_candidates(model, corenlp_version)
    IN  {cands[k] : k \in 1..Len(cands)}
        \cup {PathJoin(dir, cands[k]) : k \in 1..Len(cands)}

\* the resolver alone: any model, any input_dir, any set of existing files
InitResolve ==
    /\ script = "corenlp"
    /\ input_dir \in InputDirs
    /\ template = <<>>
    /\ models = TRUE
    /\ hub = [r \in RepoIds(script) |-> Absent]
    /\ local = [r \in RepoIds(script) |-> NoLocal]
    /\ run = 1
    /\ pc = "copy"
    /\ i \in Catalog
    /\ files \in SUBSET CandidatePaths(MODELS[i], input_dir)
    /\ killed = FALSE
    /\ now = 0
    /\ answer = NoAnswer
    /\ outcome = [k \in Catalog |-> "PENDING"]
    /\ calls = <<>>
    /\ uploaded = [k \in Catalog |-> 0]
    /\ deleted = [k \in Catalog |-> 0]
    /\ prev = NoPrev

\* the resolution of lines 123-137 applied to the inputs
Resolve ==
    /\ pc = "copy"
    /\ answer' = ResolveCoreNLP(MODELS[i], corenlp_version, input_dir, files)
    /\ pc' = "resolved"
    /\ UNCHANGED <<config, hub, local, run, i, killed, now, outcome, calls,
                   uploaded, deleted, prev>>

SpecResolve == InitResolve /\ [][Resolve]_vars

\* ------------------------------------------------------------- properties

\* the run issued operation op for model k
Issued(op, k) == \E n \in 1..Len(calls) : calls[n] = Call(op, k)

\* model k of this run failed at resolution: it raised before any copy
FailedResolution(k) == outcome[k] = "FAILED" /\ ~Issued("copy", k)

\* the artifact of model k is on disk where the script looks for it
Resolvable(k) ==
    IF script = "corenlp"
    THEN ResolveCoreNLP(MODELS[k], corenlp_version, input_dir, files).found
    ELSE ResolveStanza(LANGS[k], stanza_input_dir(input_dir, stanza_version, files),
                       files).found

\* the tags of model k's repository that bear this run's version name
VersionTags(k) ==
    {t \in hub[repo_id(script, k)].tags : t[1] = new_tag_name(script)}

\* C1, as stated: when one model fails at resolution, every other model whose
\* artifact is on disk is still processed to DONE, those after it included.
C1_BatchIsolation ==
    \A k \in stuff_to_push :
        (FailedResolution(k) /\ pc \in Terminal) =>
            \A j \in stuff_to_push \ {k} : Resolvable(j) => outcome[j] = "DONE"

\* C1, as amended: a resolution failure raises and ends the run; the models before
\* the failing one are DONE, and no model after it is processed at all.
C1_FailureEndsRun ==
    \A k \in stuff_to_push :
        FailedResolution(k) =>
            /\ pc = "raised"
            /\ i = k
            /\ \A j \in stuff_to_push : j < k => outcome[j] = "DONE"
            /\ \A j \in stuff_to_push :
                 j > k => /\ outcome[j] = "PENDING"
                          /\ \A n \in 1..Len(calls) : calls[n].model # j

\* a model failed at resolution while a later model's artifact is on disk
C1_Witness ==
    \E k \in stuff_to_push :
        /\ FailedResolution(k)
        /\ \E j \in stuff_to_push : j > k /\ Resolvable(j)

\* C2: once a model is DONE, exactly one tag bears the version name, it points at
\* the head this run's upload produced, and none points at the revision the old
\* tag of that name pointed at.
C2_TagReplace ==
    \A k \in stuff_to_push :
        outcome[k] = "DONE" =>
            /\ VersionTags(k) = {<<new_tag_name(script), uploaded[k]>>}
            /\ uploaded[k] = HeadRev(hub[repo_id(script, k)])
            /\ <<new_tag_name(script), deleted[k]>> \notin VersionTags(k)
            /\ deleted[k] < uploaded[k]

\* a model is DONE in a run that found and deleted an older tag of the same name
C2_Witness ==
    \E k \in stuff_to_push :
        /\ outcome[k] = "DONE"
        /\ deleted[k] > 0
        /\ deleted[k] < uploaded[k]

\* the previous run was interrupted while it processed a model whose artifact is on
\* disk, and this run has run to its end
RerunEnded ==
    /\ pc \in Terminal
    /\ prev.how = "interrupted"
    /\ Resolvable(prev.model)

\* model k is DONE with exactly one version tag, at the head its upload produced
Published(k) ==
    /\ outcome[k] = "DONE"
    /\ VersionTags(k) = {<<new_tag_name(script), uploaded[k]>>}
    /\ uploaded[k] = HeadRev(hub[repo_id(script, k)])

\* C3, as stated: wherever the previous run was interrupted, the next uninterrupted
\* run brings the interrupted model to DONE, with exactly one version tag, pointing
\* at the latest upload.
C3_Recoverable == RerunEnded => Published(prev.model)

\* C3, as amended: that holds for hugging_corenlp.py, and for hugging_stanza.py when
\* the interruption left the local clone clean; after an interruption that left the
\* clone with uncommitted changes the next Stanza run stops at the is_repo_clean
\* check: the model is not published and nothing is pushed for it.
C3_RecoverableUnlessDirty ==
    RerunEnded =>
        IF script = "corenlp" \/ prev.clean
        THEN Published(prev.model)
        ELSE /\ outcome[prev.model] = "NOT_CLEAN"
             /\ pc = "exit"
             /\ \A n \in 1..Len(calls) :
                  calls[n].model = prev.model => calls[n].op \in {"create_repo", "clone"}

\* a run that followed an interruption between tag delete and tag create has
\* published the interrupted model
C3_Witness ==
    /\ RerunEnded
    /\ prev.at \in {"create_tag", "add_tag"}
    /\ Published(prev.model)

\* the large-file patterns of a repository's remote .gitattributes
Tracked(h) == Rules(HeadTree(h).gitattributes)

\* C4: no step removes a pattern from a repository's remote tracking rules.
C4_TrackedMonotonic ==
    [][\A r \in DOMAIN hub :
         hub[r].exists => Tracked(hub[r]) \subseteq Tracked(hub'[r])]_vars

\* the commits of h made by maybe_add_lfs that add the rule for ext
RuleCommits(h, ext) ==
    {n \in 2..Len(h.commits) :
        /\ h.commits[n].message = <<"Upload .gitattributes with huggingface_hub">>
        /\ ext \in Rules(h.commits[n].tree.gitattributes)
        /\ ext \notin Rules(h.commits[n - 1].tree.gitattributes)}

\* C5: per repository and extension, at most one commit ever adds the tracking rule;
\* every later call finds the rule and writes nothing.
C5_OneRuleCommit ==
    \A r \in DOMAIN hub : \A ext \in {"*.jar", "*.zip"} :
        Cardinality(RuleCommits(hub[r], ext)) <= 1

\* C6: the upload commit ("Add model <version>") leaves the remote .gitattributes
\* as the commit before it had it.
C6_UploadKeepsRules ==
    \A r \in DOMAIN hub : \A n \in 2..Len(hub[r].commits) :
        hub[r].commits[n].message[1] = "Add model " =>
            hub[r].commits[n].tree.gitattributes
                = hub[r].commits[n - 1].tree.gitattributes

\* the position of an operation in the loop body, as the code orders it:
\* repository, tracking rules, resolution and copy, upload, tag
Phase(op) ==
    IF op = "create_repo" THEN 1
    ELSE IF op \in {"hf_hub_download", "upload_file *.jar", "upload_file *.zip",
                    "clone", "git_pull", "lfs_track", "push_tracked"} THEN 2
    ELSE IF op \in {"resolve", "copy"} THEN 3
    ELSE IF op \in {"upload_folder", "push_model"} THEN 4
    ELSE 5

\* the position of an operation in the order the claim states:
\* resolution, repository and tracking rules, upload, tag
ClaimedPhase(op) ==
    IF op \in {"resolve", "copy"} THEN 1
    ELSE IF Phase(op) \in {1, 2} THEN 2
    ELSE Phase(op) - 1

RemoteWrites == {"create_repo", "upload_file *.jar", "upload_file *.zip",
                 "push_tracked", "upload_folder", "push_model", "delete_tag",
                 "create_tag"}

\* C7, as stated: per model the operations come in the order resolve, repository and
\* tracking rules, upload, tag; a model that fails resolution has issued no remote
\* write.
C7_ResolveFirst ==
    /\ \A m, n \in 1..Len(calls) :
         (m < n /\ calls[m].model = calls[n].model) =>
             ClaimedPhase(calls[m].op) <= ClaimedPhase(calls[n].op)
    /\ \A k \in stuff_to_push :
         FailedResolution(k) =>
             \A n \in 1..Len(calls) :
                 calls[n].model = k => calls[n].op \notin RemoteWrites

\* C7, as amended: per model the operations come in the order repository, tracking
\* rules, resolution and copy, upload, tag, and the models in catalog order; a model
\* that fails resolution has had its repository created, and has no upload and no
\* tag operation.
C7_StepOrder ==
    /\ \A m, n \in 1..Len(calls) :
         m < n => /\ calls[m].model <= calls[n].model
                  /\ calls[m].model = calls[n].model =>
                         Phase(calls[m].op) <= Phase(calls[n].op)
    /\ \A k \in stuff_to_push :
         FailedResolution(k) =>
             /\ Issued("create_repo", k)
             /\ hub[repo_id(script, k)].exists
             /\ \A n \in 1..Len(calls) :
                  calls[n].model = k => Phase(calls[n].op) <= 3

\* a model failed at resolution after a tracking rule was pushed to its repository
C7_Witness ==
    \E k \in stuff_to_push :
        /\ FailedResolution(k)
        /\ Issued("upload_file *.jar", k)

\* the candidate names of the model under resolution, in declared order
Candidates == src_candidates(MODELS[i], corenlp_version)

\* where a candidate is looked for: under input_dir when it is set
Attempt(cand) == IF input_dir = <<>> THEN cand ELSE PathJoin(input_dir, cand)

\* the candidates that exist where they are looked for
Existing == {n \in 1..Len(Candidates) : Attempt(Candidates[n]) \in files}

\* C8: resolution returns the first candidate, in declared order, whose path exists,
\* and fails when none exists.
C8_Precedence ==
    pc = "resolved" =>
        IF Existing = {}
        THEN ~answer.found
        ELSE /\ answer.found
             /\ \E n \in Existing :
                  /\ answer.src = Attempt(Candidates[n])
                  /\ \A m \in Existing : n <= m

\* of candidates [A, B, C] only B and C exist, and B was returned
C8_Witness ==
    /\ pc = "resolved"
    /\ Existing = {2, 3}
    /\ answer.src = Attempt(Candidates[2])

\* part occurs in msg as a contiguous run of tokens
Contains(msg, part) ==
    \E a \in 0..Len(msg) :
        /\ a + Len(part) <= Len(msg)
        /\ SubSeq(msg, a + 1, a + Len(part)) = part

\* s begins with prefix
StartsWith(s, prefix) ==
    Len(prefix) <= Len(s) /\ SubSeq(s, 1, Len(prefix)) = prefix

\* C9: a model none of whose candidates exists fails with an error whose message
\* lists every path that was probed, each under input_dir when input_dir is set; no
\* artifact is copied, uploaded or tagged for it.
C9_FailureSurface ==
    \A k \in stuff_to_push :
        FailedResolution(k) =>
            /\ ~answer.found
            /\ answer.probed # <<>>
            /\ script = "corenlp" => Len(answer.probed) = Len(src_candidates(MODELS[k], corenlp_version))
            /\ \A n \in 1..Len(answer.probed) :
                 /\ answer.probed[n] \notin files
                 /\ StartsWith(answer.probed[n], input_dir)
            /\ Contains(answer.message, StrJoin(<<", ">>, answer.probed))
            /\ \A n \in 1..Len(calls) :
                 calls[n].model = k =>
                     calls[n].op \notin {"copy", "upload_folder", "push_model",
                                         "delete_tag", "create_tag"}
            /\ uploaded[k] = 0

\* a CoreNLP model failed at resolution with input_dir set
C9_Witness ==
    \E k \in stuff_to_push :
        /\ FailedResolution(k)
        /\ script = "corenlp"
        /\ input_dir # <<>>

\* no candidate exists under input_dir, and one exists in the working directory
OnlyInCwd ==
    /\ input_dir # <<>>
    /\ Existing = {}
    /\ \E n \in 1..Len(Candidates) : Candidates[n] \in files

\* C10, as stated: with input_dir set, a candidate that exists only relative to the
\* working directory is found and returned.
C10_CwdFallback ==
    (pc = "resolved" /\ OnlyInCwd) =>
        /\ answer.found
        /\ \E n \in 1..Len(Candidates) : answer.src = Candidates[n]

\* C10, as amended: with input_dir set, every candidate is probed under input_dir
\* only; the working directory is probed only when input_dir is empty, so
\* resolution fails when no candidate exists under input_dir even though one exists
\* relative to the working directory.
C10_InputDirOnly ==
    pc = "resolved" =>
        /\ \A n \in 1..Len(answer.probed) :
             answer.probed[n] = Attempt(Candidates[n])
        /\ answer.found <=> Existing # {}
        /\ OnlyInCwd => ~answer.found

\* resolution failed although a candidate exists in the working directory
C10_Witness ==
    /\ pc = "resolved"
    /\ OnlyInCwd
    /\ ~answer.found
    /\ Len(answer.probed) = Len(Candidates)

\* the repositories that exist on the hub
Repositories == {r \in DOMAIN hub : hub[r].exists}

\* this step issued create_repo
CreateIssued ==
    /\ Len(calls') = Len(calls) + 1
    /\ calls'[Len(calls')].op = "create_repo"

\* C12: create_repo on a repository that exists already succeeds (the script goes
\* on with the next statement, no model is marked failed) and leaves the hub as it
\* was; on a repository that does not exist it adds exactly that repository.
C12_CreateIdempotent ==
    [][CreateIssued =>
         /\ pc' = After(script, pc)
         /\ outcome' = outcome
         /\ hub[Here].exists => hub' = hub
         /\ ~hub[Here].exists => Repositories' = Repositories \cup {Here}]_vars

\* a later run has just issued create_repo for a repository that an earlier run
\* created and committed to
C12_Witness ==
    /\ run >= 2
    /\ pc = Steps(script)[2]
    /\ calls = <<Call("create_repo", i)>>
    /\ Len(hub[Here].commits) >= 2

\* the patterns a script puts under large-file tracking
RelevantExtensions(s) ==
    IF s = "corenlp" THEN {"*.jar", "*.zip"} ELSE {"*.zip", "*.pt"}

\* C13: once the tracking steps of a model are done (the script is about to copy
\* the artifact), the remote .gitattributes has a rule for every relevant extension,
\* whatever rules the repository had before.
C13_RulesComplete ==
    pc \in {"copy", "copytree"} =>
        RelevantExtensions(script) \subseteq Tracked(hub[Here])

\* the upload operation of a script
UploadOp(s) == IF s = "corenlp" THEN "upload_folder" ELSE "push_model"

\* C14: the tag is created only after this run's upload of the model, at the head
\* that upload produced and in a state where no tag bears the version name; no
\* repository ever has two tags of one name, and no create_tag fails.
C14_DeleteThenCreate ==
    /\ \A r \in DOMAIN hub :
         \A t, u \in hub[r].tags : t[1] = u[1] => t = u
    /\ pc \in {"create_tag", "add_tag"} =>
         /\ ~TagExists(hub[Here], new_tag_name(script))
         /\ Issued(UploadOp(script), i)
         /\ uploaded[i] = HeadRev(hub[Here])
    /\ \A n \in 1..Len(calls) :
         calls[n].op = "create_tag" =>
             /\ \E m \in 1..(n - 1) : calls[m] = Call(UploadOp(script), calls[n].model)
             /\ outcome[calls[n].model] = "DONE"

\* the script is about to create the tag after it deleted the tag of an earlier run
C14_Witness ==
    /\ pc \in {"create_tag", "add_tag"}
    /\ deleted[i] > 0
    /\ ~TagExists(hub[Here], new_tag_name(script))

\* C15: distinct catalog entries have distinct repository ids (the override if
\* given, otherwise prefix + model name) and distinct staging directories, and a
\* step taken while model i is processed changes neither the remote repository
\* nor the staging directory of any other model.
C15_OwnRepositoryOnly ==
    [][/\ \A j, k \in Catalog :
            j # k => /\ repo_id(script, j) # repo_id(script, k)
                     /\ repo_local_path(script, j) # repo_local_path(script, k)
       /\ \A k \in Catalog :
            script = "corenlp" =>
                repo_id(script, k) =
                    <<"stanfordnlp/">> \o
                    (IF MODELS[k].repo_name # None THEN MODELS[k].repo_name
                     ELSE <<"corenlp-", MODELS[k].model_name>>)
       /\ \A k \in Catalog :
            k # i => /\ hub'[repo_id(script, k)] = hub[repo_id(script, k)]
                     /\ local'[repo_id(script, k)] = local[repo_id(script, k)]]_vars

\* a model has been uploaded while another model's repository is published
C15_Witness ==
    \E k \in Catalog :
        /\ i = k
        /\ uploaded[k] > 0
        /\ \E j \in Catalog : j # k /\ Published(j)

\* C16: when the clone of a language is not clean, the Stanza script has issued
\* nothing for it after the clone, has stopped, has not touched any later language,
\* and the languages before it are still published.
C16_NotCleanStops ==
    \A k \in Catalog :
        outcome[k] = "NOT_CLEAN" =>
            /\ script = "stanza"
            /\ pc = "exit"
            /\ \A n \in 1..Len(calls) :
                 calls[n].model = k => calls[n].op \in {"create_repo", "clone"}
            /\ \A j \in Catalog :
                 j > k => /\ outcome[j] = "PENDING"
                          /\ \A n \in 1..Len(calls) : calls[n].model # j
            /\ \A j \in Catalog : j < k => Published(j)

\* a clone was not clean while a later language's models are on disk
C16_Witness ==
    \E k \in Catalog :
        /\ outcome[k] = "NOT_CLEAN"
        /\ \E j \in Catalog : j > k /\ Resolvable(j)

\* the operations of the log come in catalog order, and no entry is skipped
InCatalogOrder ==
    /\ \A m, n \in 1..Len(calls) : m < n => calls[m].model <= calls[n].model
    /\ \A n \in 1..Len(calls) :
         \A j \in Catalog : j < calls[n].model => outcome[j] = "DONE"
    /\ (pc = "exit" /\ \A k \in Catalog : outcome[k] # "NOT_CLEAN") =>
           \A k \in Catalog : outcome[k] = "DONE"

\* the catalog entries that are not the CoreNLP package
LanguageModels == {k \in Catalog : MODELS[k].model_name # "CoreNLP"}

\* C17: with --no_models every operation of the run is issued for the CoreNLP
\* package and no step changes the repository or staging directory of a language
\* model; without it the run walks the catalog in order, skipping no entry, and a
\* run that reaches its end has processed every entry.
C17_NoModels ==
    [][/\ ~models =>
            /\ \A n \in 1..Len(calls') :
                 MODELS[calls'[n].model].model_name = "CoreNLP"
            /\ \A k \in LanguageModels :
                 /\ hub'[repo_id(script, k)] = hub[repo_id(script, k)]
                 /\ local'[repo_id(script, k)] = local[repo_id(script, k)]
                 /\ outcome'[k] = "PENDING"
       /\ models => InCatalogOrder']_vars

\* a run with --no_models has ended with the package published while a language
\* model's artifact is on disk
C17_Witness ==
    /\ ~models
    /\ pc = "exit"
    /\ \A k \in Catalog \ LanguageModels : Published(k)
    /\ \E k \in LanguageModels : Resolvable(k)

====
